---- MODULE Spec2Model ----
(***************************************************************************)
(* Model of setup.py of the python-driver: capability detection, override  *)
(* resolution, the two static extension descriptors and                    *)
(* build_extension_list(), the assembler of the ext_modules plan.          *)
(*                                                                         *)
(* Python strings that the code inspects (split, strip, startswith, int)   *)
(* are sequences of tokens; a token is one character or a chunk of         *)
(* characters none of which the code looks at ("/usr/include").            *)
(***************************************************************************)
EXTENDS FiniteSets, Integers, Sequences, TLC

VARIABLES sys_platform, sys_byteorder, sys_version, sys_argv, environ,
          pc, stderr, build_concurrency, rv, adapter, adapter_calls,
          exc, ext_modules

vars == <<sys_platform, sys_byteorder, sys_version, sys_argv, environ,
          pc, stderr, build_concurrency, rv, adapter, adapter_calls,
          exc, ext_modules>>

host == <<sys_platform, sys_byteorder, sys_version, sys_argv, environ>>

(***************************************************************************)
(* String helpers (str.startswith, str.strip, str.split, int)              *)
(*                                                                         *)
(* A character that cannot be written in a TLA+ string is the token        *)
(* "U+XXXX" of its code point.                                             *)
(***************************************************************************)
\* the characters str.strip() removes: those for which str.isspace() holds
Whitespace ==
    {"\t", "\n", "U+000B", "\f", "\r", "U+001C", "U+001D", "U+001E",
     "U+001F", " ", "U+0085", "U+00A0", "U+1680", "U+2000", "U+2001",
     "U+2002", "U+2003", "U+2004", "U+2005", "U+2006", "U+2007", "U+2008",
     "U+2009", "U+200A", "U+2028", "U+2029", "U+202F", "U+205F", "U+3000"}

\* int() ignores the same characters around the literal, except the four
\* ASCII separators U+001C..U+001F
IntWhitespace == Whitespace \ {"U+001C", "U+001D", "U+001E", "U+001F"}

\* the decimal digits int() accepts (Unicode category Nd), one row per
\* script, each row in the order 0..9
DecimalDigits ==
    <<
       <<"0", "1", "2", "3", "4", "5", "6", "7", "8", "9">>,
       <<"U+0660", "U+0661", "U+0662", "U+0663", "U+0664", "U+0665", "U+0666", "U+0667", "U+0668", "U+0669">>,
       <<"U+06F0", "U+06F1", "U+06F2", "U+06F3", "U+06F4", "U+06F5", "U+06F6", "U+06F7", "U+06F8", "U+06F9">>,
       <<"U+07C0", "U+07C1", "U+07C2", "U+07C3", "U+07C4", "U+07C5", "U+07C6", "U+07C7", "U+07C8", "U+07C9">>,
       <<"U+0966", "U+0967", "U+0968", "U+0969", "U+096A", "U+096B", "U+096C", "U+096D", "U+096E", "U+096F">>,
       <<"U+09E6", "U+09E7", "U+09E8", "U+09E9", "U+09EA", "U+09EB", "U+09EC", "U+09ED", "U+09EE", "U+09EF">>,
       <<"U+0A66", "U+0A67", "U+0A68", "U+0A69", "U+0A6A", "U+0A6B", "U+0A6C", "U+0A6D", "U+0A6E", "U+0A6F">>,
       <<"U+0AE6", "U+0AE7", "U+0AE8", "U+0AE9", "U+0AEA", "U+0AEB", "U+0AEC", "U+0AED", "U+0AEE", "U+0AEF">>,
       <<"U+0B66", "U+0B67", "U+0B68", "U+0B69", "U+0B6A", "U+0B6B", "U+0B6C", "U+0B6D", "U+0B6E", "U+0B6F">>,
       <<"U+0BE6", "U+0BE7", "U+0BE8", "U+0BE9", "U+0BEA", "U+0BEB", "U+0BEC", "U+0BED", "U+0BEE", "U+0BEF">>,
       <<"U+0C66", "U+0C67", "U+0C68", "U+0C69", "U+0C6A", "U+0C6B", "U+0C6C", "U+0C6D", "U+0C6E", "U+0C6F">>,
       <<"U+0CE6", "U+0CE7", "U+0CE8", "U+0CE9", "U+0CEA", "U+0CEB", "U+0CEC", "U+0CED", "U+0CEE", "U+0CEF">>,
       <<"U+0D66", "U+0D67", "U+0D68", "U+0D69", "U+0D6A", "U+0D6B", "U+0D6C", "U+0D6D", "U+0D6E", "U+0D6F">>,
       <<"U+0DE6", "U+0DE7", "U+0DE8", "U+0DE9", "U+0DEA", "U+0DEB", "U+0DEC", "U+0DED", "U+0DEE", "U+0DEF">>,
       <<"U+0E50", "U+0E51", "U+0E52", "U+0E53", "U+0E54", "U+0E55", "U+0E56", "U+0E57", "U+0E58", "U+0E59">>,
       <<"U+0ED0", "U+0ED1", "U+0ED2", "U+0ED3", "U+0ED4", "U+0ED5", "U+0ED6", "U+0ED7", "U+0ED8", "U+0ED9">>,
       <<"U+0F20", "U+0F21", "U+0F22", "U+0F23", "U+0F24", "U+0F25", "U+0F26", "U+0F27", "U+0F28", "U+0F29">>,
       <<"U+1040", "U+1041", "U+1042", "U+1043", "U+1044", "U+1045", "U+1046", "U+1047", "U+1048", "U+1049">>,
       <<"U+1090", "U+1091", "U+1092", "U+1093", "U+1094", "U+1095", "U+1096", "U+1097", "U+1098", "U+1099">>,
       <<"U+17E0", "U+17E1", "U+17E2", "U+17E3", "U+17E4", "U+17E5", "U+17E6", "U+17E7", "U+17E8", "U+17E9">>,
       <<"U+1810", "U+1811", "U+1812", "U+1813", "U+1814", "U+1815", "U+1816", "U+1817", "U+1818", "U+1819">>,
       <<"U+1946", "U+1947", "U+1948", "U+1949", "U+194A", "U+194B", "U+194C", "U+194D", "U+194E", "U+194F">>,
       <<"U+19D0", "U+19D1", "U+19D2", "U+19D3", "U+19D4", "U+19D5", "U+19D6", "U+19D7", "U+19D8", "U+19D9">>,
       <<"U+1A80", "U+1A81", "U+1A82", "U+1A83", "U+1A84", "U+1A85", "U+1A86", "U+1A87", "U+1A88", "U+1A89">>,
       <<"U+1A90", "U+1A91", "U+1A92", "U+1A93", "U+1A94", "U+1A95", "U+1A96", "U+1A97", "U+1A98", "U+1A99">>,
       <<"U+1B50", "U+1B51", "U+1B52", "U+1B53", "U+1B54", "U+1B55", "U+1B56", "U+1B57", "U+1B58", "U+1B59">>,
       <<"U+1BB0", "U+1BB1", "U+1BB2", "U+1BB3", "U+1BB4", "U+1BB5", "U+1BB6", "U+1BB7", "U+1BB8", "U+1BB9">>,
       <<"U+1C40", "U+1C41", "U+1C42", "U+1C43", "U+1C44", "U+1C45", "U+1C46", "U+1C47", "U+1C48", "U+1C49">>,
       <<"U+1C50", "U+1C51", "U+1C52", "U+1C53", "U+1C54", "U+1C55", "U+1C56", "U+1C57", "U+1C58", "U+1C59">>,
       <<"U+A620", "U+A621", "U+A622", "U+A623", "U+A624", "U+A625", "U+A626", "U+A627", "U+A628", "U+A629">>,
       <<"U+A8D0", "U+A8D1", "U+A8D2", "U+A8D3", "U+A8D4", "U+A8D5", "U+A8D6", "U+A8D7", "U+A8D8", "U+A8D9">>,
       <<"U+A900", "U+A901", "U+A902", "U+A903", "U+A904", "U+A905", "U+A906", "U+A907", "U+A908", "U+A909">>,
       <<"U+A9D0", "U+A9D1", "U+A9D2", "U+A9D3", "U+A9D4", "U+A9D5", "U+A9D6", "U+A9D7", "U+A9D8", "U+A9D9">>,
       <<"U+A9F0", "U+A9F1", "U+A9F2", "U+A9F3", "U+A9F4", "U+A9F5", "U+A9F6", "U+A9F7", "U+A9F8", "U+A9F9">>,
       <<"U+AA50", "U+AA51", "U+AA52", "U+AA53", "U+AA54", "U+AA55", "U+AA56", "U+AA57", "U+AA58", "U+AA59">>,
       <<"U+ABF0", "U+ABF1", "U+ABF2", "U+ABF3", "U+ABF4", "U+ABF5", "U+ABF6", "U+ABF7", "U+ABF8", "U+ABF9">>,
       <<"U+FF10", "U+FF11", "U+FF12", "U+FF13", "U+FF14", "U+FF15", "U+FF16", "U+FF17", "U+FF18", "U+FF19">>,
       <<"U+104A0", "U+104A1", "U+104A2", "U+104A3", "U+104A4", "U+104A5", "U+104A6", "U+104A7", "U+104A8", "U+104A9">>,
       <<"U+10D30", "U+10D31", "U+10D32", "U+10D33", "U+10D34", "U+10D35", "U+10D36", "U+10D37", "U+10D38", "U+10D39">>,
       <<"U+11066", "U+11067", "U+11068", "U+11069", "U+1106A", "U+1106B", "U+1106C", "U+1106D", "U+1106E", "U+1106F">>,
       <<"U+110F0", "U+110F1", "U+110F2", "U+110F3", "U+110F4", "U+110F5", "U+110F6", "U+110F7", "U+110F8", "U+110F9">>,
       <<"U+11136", "U+11137", "U+11138", "U+11139", "U+1113A", "U+1113B", "U+1113C", "U+1113D", "U+1113E", "U+1113F">>,
       <<"U+111D0", "U+111D1", "U+111D2", "U+111D3", "U+111D4", "U+111D5", "U+111D6", "U+111D7", "U+111D8", "U+111D9">>,
       <<"U+112F0", "U+112F1", "U+112F2", "U+112F3", "U+112F4", "U+112F5", "U+112F6", "U+112F7", "U+112F8", "U+112F9">>,
       <<"U+11450", "U+11451", "U+11452", "U+11453", "U+11454", "U+11455", "U+11456", "U+11457", "U+11458", "U+11459">>,
       <<"U+114D0", "U+114D1", "U+114D2", "U+114D3", "U+114D4", "U+114D5", "U+114D6", "U+114D7", "U+114D8", "U+114D9">>,
       <<"U+11650", "U+11651", "U+11652", "U+11653", "U+11654", "U+11655", "U+11656", "U+11657", "U+11658", "U+11659">>,
       <<"U+116C0", "U+116C1", "U+116C2", "U+116C3", "U+116C4", "U+116C5", "U+116C6", "U+116C7", "U+116C8", "U+116C9">>,
       <<"U+11730", "U+11731", "U+11732", "U+11733", "U+11734", "U+11735", "U+11736", "U+11737", "U+11738", "U+11739">>,
       <<"U+118E0", "U+118E1", "U+118E2", "U+118E3", "U+118E4", "U+118E5", "U+118E6", "U+118E7", "U+118E8", "U+118E9">>,
       <<"U+11950", "U+11951", "U+11952", "U+11953", "U+11954", "U+11955", "U+11956", "U+11957", "U+11958", "U+11959">>,
       <<"U+11C50", "U+11C51", "U+11C52", "U+11C53", "U+11C54", "U+11C55", "U+11C56", "U+11C57", "U+11C58", "U+11C59">>,
       <<"U+11D50", "U+11D51", "U+11D52", "U+11D53", "U+11D54", "U+11D55", "U+11D56", "U+11D57", "U+11D58", "U+11D59">>,
       <<"U+11DA0", "U+11DA1", "U+11DA2", "U+11DA3", "U+11DA4", "U+11DA5", "U+11DA6", "U+11DA7", "U+11DA8", "U+11DA9">>,
       <<"U+16A60", "U+16A61", "U+16A62", "U+16A63", "U+16A64", "U+16A65", "U+16A66", "U+16A67", "U+16A68", "U+16A69">>,
       <<"U+16AC0", "U+16AC1", "U+16AC2", "U+16AC3", "U+16AC4", "U+16AC5", "U+16AC6", "U+16AC7", "U+16AC8", "U+16AC9">>,
       <<"U+16B50", "U+16B51", "U+16B52", "U+16B53", "U+16B54", "U+16B55", "U+16B56", "U+16B57", "U+16B58", "U+16B59">>,
       <<"U+1D7CE", "U+1D7CF", "U+1D7D0", "U+1D7D1", "U+1D7D2", "U+1D7D3", "U+1D7D4", "U+1D7D5", "U+1D7D6", "U+1D7D7">>,
       <<"U+1D7D8", "U+1D7D9", "U+1D7DA", "U+1D7DB", "U+1D7DC", "U+1D7DD", "U+1D7DE", "U+1D7DF", "U+1D7E0", "U+1D7E1">>,
       <<"U+1D7E2", "U+1D7E3", "U+1D7E4", "U+1D7E5", "U+1D7E6", "U+1D7E7", "U+1D7E8", "U+1D7E9", "U+1D7EA", "U+1D7EB">>,
       <<"U+1D7EC", "U+1D7ED", "U+1D7EE", "U+1D7EF", "U+1D7F0", "U+1D7F1", "U+1D7F2", "U+1D7F3", "U+1D7F4", "U+1D7F5">>,
       <<"U+1D7F6", "U+1D7F7", "U+1D7F8", "U+1D7F9", "U+1D7FA", "U+1D7FB", "U+1D7FC", "U+1D7FD", "U+1D7FE", "U+1D7FF">>,
       <<"U+1E140", "U+1E141", "U+1E142", "U+1E143", "U+1E144", "U+1E145", "U+1E146", "U+1E147", "U+1E148", "U+1E149">>,
       <<"U+1E2F0", "U+1E2F1", "U+1E2F2", "U+1E2F3", "U+1E2F4", "U+1E2F5", "U+1E2F6", "U+1E2F7", "U+1E2F8", "U+1E2F9">>,
       <<"U+1E950", "U+1E951", "U+1E952", "U+1E953", "U+1E954", "U+1E955", "U+1E956", "U+1E957", "U+1E958", "U+1E959">>,
       <<"U+1FBF0", "U+1FBF1", "U+1FBF2", "U+1FBF3", "U+1FBF4", "U+1FBF5", "U+1FBF6", "U+1FBF7", "U+1FBF8", "U+1FBF9">>
    >>

Digits == UNION {{DecimalDigits[r][k] : k \in 1..10} : r \in DOMAIN DecimalDigits}

\* sys.get_int_max_str_digits(): longer literals are refused by int()
INT_MAX_STR_DIGITS == 4300

StartsWith(s, prefix) ==
    /\ Len(s) >= Len(prefix)
    /\ SubSeq(s, 1, Len(prefix)) = prefix

RECURSIVE LStripOf(_, _)
LStripOf(s, blank) ==
    IF s # <<>> /\ Head(s) \in blank THEN LStripOf(Tail(s), blank) ELSE s

RECURSIVE RStripOf(_, _)
RStripOf(s, blank) ==
    IF s # <<>> /\ s[Len(s)] \in blank
    THEN RStripOf(SubSeq(s, 1, Len(s) - 1), blank)
    ELSE s

LStrip(s) == LStripOf(s, Whitespace)
RStrip(s) == RStripOf(s, Whitespace)
Strip(s) == RStrip(LStrip(s))

\* str.split(','): always at least one field, empty fields are kept
RECURSIVE SplitFrom(_, _)
SplitFrom(s, cur) ==
    IF s = <<>> THEN <<cur>>
    ELSE IF Head(s) = "," THEN <<cur>> \o SplitFrom(Tail(s), <<>>)
    ELSE SplitFrom(Tail(s), Append(cur, Head(s)))

Split(s) == SplitFrom(s, <<>>)

DigitValue(c) ==
    CHOOSE v \in 0..9 : \E r \in DOMAIN DecimalDigits : DecimalDigits[r][v + 1] = c

\* digits with single underscores between them; after_digit says that the
\* character before s was a digit
RECURSIVE ParseDigitsFrom(_, _, _)
ParseDigitsFrom(s, acc, after_digit) ==
    IF s = <<>> THEN [ok |-> after_digit, value |-> IF after_digit THEN acc ELSE 0]
    ELSE IF Head(s) \in Digits
         THEN ParseDigitsFrom(Tail(s), 10 * acc + DigitValue(Head(s)), TRUE)
    ELSE IF Head(s) = "_" /\ after_digit
         THEN ParseDigitsFrom(Tail(s), acc, FALSE)
    ELSE [ok |-> FALSE, value |-> 0]

ParseDigits(s, acc) == ParseDigitsFrom(s, acc, FALSE)

DigitCount(s) == Cardinality({i \in 1..Len(s) : s[i] \in Digits})

\* int(str): surrounding whitespace ignored, optional sign, digits with
\* single underscores between them, at most INT_MAX_STR_DIGITS digits
PyInt(s) ==
    LET t == RStripOf(LStripOf(s, IntWhitespace), IntWhitespace)
        signed == t # <<>> /\ Head(t) \in {"+", "-"}
        body == IF signed THEN Tail(t) ELSE t
    IN  IF DigitCount(body) > INT_MAX_STR_DIGITS
        THEN [ok |-> FALSE, value |-> 0]
        ELSE LET mag == ParseDigits(body, 0)
             IN  IF ~mag.ok THEN [ok |-> FALSE, value |-> 0]
                 ELSE [ok |-> TRUE,
                       value |-> IF signed /\ Head(t) = "-" THEN 0 - mag.value
                                 ELSE mag.value]

(***************************************************************************)
(* os.environ                                                              *)
(***************************************************************************)
\* variant: the variable being set is enough ('name in os.environ')
EnvTruthy_SetIsEnough(env, name) == name \in DOMAIN env

\* truthiness of os.environ.get(name): set and not the empty string
EnvTruthy(env, name) == name \in DOMAIN env /\ env[name] # <<>>

EnvGet(env, name, default) ==
    IF name \in DOMAIN env THEN env[name] ELSE default

(***************************************************************************)
(* sys.argv: a list of words, sys.argv[0] the script                       *)
(***************************************************************************)
\* word in sys.argv
InArgv(argv, word) == \E i \in 1..Len(argv) : argv[i] = word

\* the four words lines 136-139 look for
Flags == {"--no-extensions", "--no-murmur3", "--no-libev", "--no-cython"}

(***************************************************************************)
(* Capability flags                                                        *)
(***************************************************************************)
IsWindows(platform) == StartsWith(platform, <<"win32">>)
IsMacos(platform) == StartsWith(platform, <<"darwin">>)
IsPypy(version) == \E i \in 1..Len(version) : version[i] = "PyPy"
IsSupportedPlatform(platform) ==
    platform # <<"cli">> /\ ~StartsWith(platform, <<"java">>)
IsSupportedArch(byteorder) == byteorder # "big"

is_windows == IsWindows(sys_platform)
is_macos == IsMacos(sys_platform)
is_pypy == IsPypy(sys_version)
is_supported_platform == IsSupportedPlatform(sys_platform)
is_supported_arch == IsSupportedArch(sys_byteorder)

(***************************************************************************)
(* Extension descriptors                                                   *)
(***************************************************************************)
Extension(name, sources, include_dirs, libraries, library_dirs, extra) ==
    [name |-> name, sources |-> sources, include_dirs |-> include_dirs,
     libraries |-> libraries, library_dirs |-> library_dirs,
     extra_compile_args |-> extra]

murmur3_ext ==
    Extension(<<"cassandra", "cmurmur3">>, <<"cassandra/cmurmur3.c">>,
              <<>>, <<>>, <<>>, <<>>)

eval_env_var_as_array(env, varname) ==
    IF ~EnvTruthy(env, varname) THEN <<>>
    ELSE LET fields == Split(env[varname])
         IN  [i \in 1..Len(fields) |-> Strip(fields[i])]

DEFAULT_LIBEV_INCLUDES ==
    << <<"/usr/include/libev">>, <<"/usr/local/include">>,
       <<"/opt/local/include">>, <<"/usr/include">> >>
DEFAULT_LIBEV_LIBDIRS ==
    << <<"/usr/local/lib">>, <<"/opt/local/lib">>, <<"/usr/lib64">> >>

user_home == <<"/Users/dev">>
expanduser(path) ==
    IF path # <<>> /\ Head(path) = "~" THEN user_home \o Tail(path) ELSE path

MACOS_INCLUDES ==
    << <<"/opt/homebrew/include">>, expanduser(<<"~", "/homebrew/include">>) >>
MACOS_LIBDIRS == << <<"/opt/homebrew/lib">> >>

\* "x or DEFAULT": an empty list is falsy
OrDefault(list, default) == IF list = <<>> THEN default ELSE list

\* variant: the macOS prefixes are added to the built-in list only
LibevIncludes_OverrideWins(env, platform) ==
    LET given == eval_env_var_as_array(env, "CASS_DRIVER_LIBEV_INCLUDES")
    IN  IF given # <<>> THEN given
        ELSE IF IsMacos(platform) THEN DEFAULT_LIBEV_INCLUDES \o MACOS_INCLUDES
        ELSE DEFAULT_LIBEV_INCLUDES

LibevIncludes(env, platform) ==
    LET base == OrDefault(eval_env_var_as_array(env, "CASS_DRIVER_LIBEV_INCLUDES"),
                          DEFAULT_LIBEV_INCLUDES)
    IN  IF IsMacos(platform) THEN base \o MACOS_INCLUDES ELSE base

LibevLibdirs(env, platform) ==
    LET base == OrDefault(eval_env_var_as_array(env, "CASS_DRIVER_LIBEV_LIBS"),
                          DEFAULT_LIBEV_LIBDIRS)
    IN  IF IsMacos(platform) THEN base \o MACOS_LIBDIRS ELSE base

libev_includes == LibevIncludes(environ, sys_platform)
libev_libdirs == LibevLibdirs(environ, sys_platform)

LibevExt(includes, libdirs) ==
    Extension(<<"cassandra", "io", "libevwrapper">>,
              <<"cassandra/io/libevwrapper.c">>,
              includes, <<"ev">>, libdirs, <<>>)

libev_ext == LibevExt(libev_includes, libev_libdirs)

(***************************************************************************)
(* Eligibility switches                                                    *)
(***************************************************************************)
\* variant: the byte order is not consulted
TryExtensions_AnyByteOrder(argv, env, platform, byteorder) ==
    /\ ~InArgv(argv, "--no-extensions")
    /\ IsSupportedPlatform(platform)
    /\ ~EnvTruthy(env, "CASS_DRIVER_NO_EXTENSIONS")

\* variant: only the environment variable switches everything off
TryExtensions_EnvOnly(argv, env, platform, byteorder) ==
    /\ IsSupportedPlatform(platform)
    /\ IsSupportedArch(byteorder)
    /\ ~EnvTruthy(env, "CASS_DRIVER_NO_EXTENSIONS")

TryExtensions(argv, env, platform, byteorder) ==
    /\ ~InArgv(argv, "--no-extensions")
    /\ IsSupportedPlatform(platform)
    /\ IsSupportedArch(byteorder)
    /\ ~EnvTruthy(env, "CASS_DRIVER_NO_EXTENSIONS")

\* variant: murmur3 treated like the other two on PyPy
TryMurmur3_NotOnPypy(argv, env, platform, byteorder, version) ==
    /\ TryExtensions(argv, env, platform, byteorder)
    /\ ~InArgv(argv, "--no-murmur3")
    /\ ~IsPypy(version)

TryMurmur3(argv, env, platform, byteorder, version) ==
    /\ TryExtensions(argv, env, platform, byteorder)
    /\ ~InArgv(argv, "--no-murmur3")

\* variant: libev also switched off by the murmur3 flag
TryLibev_AlsoMurmurFlag(argv, env, platform, byteorder, version) ==
    /\ TryExtensions(argv, env, platform, byteorder)
    /\ ~InArgv(argv, "--no-murmur3")
    /\ ~InArgv(argv, "--no-libev")
    /\ ~IsPypy(version)
    /\ ~EnvTruthy(env, "CASS_DRIVER_NO_LIBEV")

TryLibev(argv, env, platform, byteorder, version) ==
    /\ TryExtensions(argv, env, platform, byteorder)
    /\ ~InArgv(argv, "--no-libev")
    /\ ~IsPypy(version)
    /\ ~EnvTruthy(env, "CASS_DRIVER_NO_LIBEV")

TryCython(argv, env, platform, byteorder, version) ==
    /\ TryExtensions(argv, env, platform, byteorder)
    /\ ~InArgv(argv, "--no-cython")
    /\ ~IsPypy(version)
    /\ ~EnvTruthy(env, "CASS_DRIVER_NO_CYTHON")

try_extensions == TryExtensions(sys_argv, environ, sys_platform, sys_byteorder)
try_murmur3 ==
    TryMurmur3(sys_argv, environ, sys_platform, sys_byteorder, sys_version)
try_libev ==
    TryLibev(sys_argv, environ, sys_platform, sys_byteorder, sys_version)
try_cython ==
    TryCython(sys_argv, environ, sys_platform, sys_byteorder, sys_version)

(***************************************************************************)
(* The Cython adapter (cythonize), an external collaborator                *)
(***************************************************************************)
cython_candidates ==
    <<"cluster", "concurrent", "connection", "cqltypes", "metadata",
      "pool", "protocol", "query", "util">>

\* .pyx files the glob 'cassandra/*.pyx' may find, in the order it lists them
pyx_files == <<"bytesio", "deserializers", "parsing">>

CompileArgs(platform) ==
    IF IsWindows(platform) THEN <<>> ELSE <<"-Wno-unused-function">>

\* what cythonize makes of one module: the descriptor with the generated C file
Cythonized(m, suffix, platform) ==
    Extension(<<"cassandra", m>>, <<"cassandra/", m, suffix, ".c">>,
              <<>>, <<>>, <<>>, CompileArgs(platform))

RECURSIVE Keep(_, _)
Keep(names, dropped) ==
    IF names = <<>> THEN <<>>
    ELSE IF Head(names) \in dropped THEN Keep(Tail(names), dropped)
    ELSE <<Head(names)>> \o Keep(Tail(names), dropped)

\* variant: failing modules are not excluded from the result
CythonizeNamed_KeepsFailed(failed, platform) ==
    [i \in 1..Len(cython_candidates) |->
        Cythonized(cython_candidates[i], ".py", platform)]

\* cythonize(named modules, exclude_failures=True): the modules in `failed'
\* are dropped, the others are returned in the order given
CythonizeNamed(failed, platform) ==
    LET kept == Keep(cython_candidates, failed)
    IN  [i \in 1..Len(kept) |-> Cythonized(kept[i], ".py", platform)]

\* cythonize(Extension("*", ["cassandra/*.pyx"])): one descriptor per file found
CythonizeGlob(found, platform) ==
    LET kept == Keep(pyx_files, {pyx_files[i] : i \in 1..Len(pyx_files)} \ found)
    IN  [i \in 1..Len(kept) |-> Cythonized(kept[i], ".pyx", platform)]

Range(s) == {s[i] : i \in 1..Len(s)}

\* any of the named modules may fail; any of the .pyx files may be there
FailedSets == SUBSET Range(cython_candidates)
FoundSets == SUBSET Range(pyx_files)

\* exceptions the adapter raises, and the ones "except Exception" catches
\* "except Exception" does not catch a BaseException such as KeyboardInterrupt
AdapterErrors ==
    {"CompileError", "ValueError", "RuntimeError", "KeyboardInterrupt",
     "SystemExit"}
ImportErrors == {"ImportError"} \cup AdapterErrors
ExceptionClasses == {"ImportError", "CompileError", "ValueError", "RuntimeError"}
\* variant: 'except CompileError' in place of 'except Exception'
Catches_CompileErrorOnly(e) == e = "CompileError"
Catches(e) == e \in ExceptionClasses

NoAdapter ==
    [import |-> "untried", named |-> "untried", failed |-> {},
     glob |-> "untried", found |-> {}]

(***************************************************************************)
(* setup() of setuptools, an external collaborator: it reads the command   *)
(* line from sys.argv[1:] (which lines 136-139 leave as it was) and runs   *)
(* the commands named there over ext_modules.                              *)
(*                                                                         *)
(* Words of the command lines considered: the four flags, the display      *)
(* option --version, the command build_ext, its option --build-lib (which  *)
(* takes the next word as its argument) and the plain word "out".          *)
(***************************************************************************)
display_options == {"--version"}
commands == {"build_ext"}
build_ext_options == {"--build-lib"}
\* the words that start with a dash
OptionWords == Flags \cup display_options \cup build_ext_options

Accepted(kind) == [outcome |-> kind, message |-> "", word |-> ""]
UsageError(msg, w) == [outcome |-> "error", message |-> msg, word |-> w]

\* the options before the first command: parsing them stops at the first
\* word that is not an option; only a display option is known there
RECURSIVE GlobalOptions(_, _)
GlobalOptions(args, display) ==
    IF args = <<>> \/ Head(args) \notin OptionWords
    THEN [outcome |-> "ok", display |-> display, rest |-> args,
          message |-> "", word |-> ""]
    ELSE IF Head(args) \in display_options
    THEN GlobalOptions(Tail(args), TRUE)
    ELSE [outcome |-> "error", display |-> display, rest |-> args,
          message |-> "error: option not recognized", word |-> Head(args)]

\* the options after a command name, up to the next word that is not an
\* option; an option with an argument takes the next word, whatever it is
RECURSIVE CommandOptions(_)
CommandOptions(args) ==
    IF args = <<>> \/ Head(args) \notin OptionWords
    THEN [outcome |-> "ok", rest |-> args, message |-> "", word |-> ""]
    ELSE IF Head(args) \in build_ext_options
    THEN IF Len(args) < 2
         THEN [outcome |-> "error", rest |-> args,
               message |-> "error: option requires argument",
               word |-> Head(args)]
         ELSE CommandOptions(Tail(Tail(args)))
    ELSE [outcome |-> "error", rest |-> args,
          message |-> "error: option not recognized", word |-> Head(args)]

RECURSIVE ParseCommands(_, _)
ParseCommands(args, seen) ==
    IF args = <<>>
    THEN IF seen = 0 THEN UsageError("error: no commands supplied", "")
         ELSE Accepted("run")
    ELSE IF Head(args) \notin commands
    THEN UsageError("error: invalid command", Head(args))
    ELSE LET opts == CommandOptions(Tail(args))
         IN  IF opts.outcome = "error"
             THEN UsageError(opts.message, opts.word)
             ELSE ParseCommands(opts.rest, seen + 1)

\* "display": a display option was given, its text is printed and no
\* command is looked at; "run": the commands are accepted; "error": the
\* command line is refused with SystemExit
ParseCommandLine(args) ==
    LET global == GlobalOptions(args, FALSE)
    IN  IF global.outcome = "error"
        THEN UsageError(global.message, global.word)
        ELSE IF global.display THEN Accepted("display")
        ELSE ParseCommands(global.rest, 0)

(***************************************************************************)
(* Steps of the script                                                     *)
(***************************************************************************)
\* lines 108-113
UpfrontMessages ==
    (IF is_pypy THEN <<"pypy_unsupported_msg">> ELSE <<>>)
    \o (IF ~is_supported_platform THEN <<"platform_unsupported_msg">>
        ELSE IF ~is_supported_arch THEN <<"arch_unsupported_msg">>
        ELSE <<>>)

UpfrontChecks ==
    /\ pc = "upfront"
    /\ stderr' = stderr \o UpfrontMessages
    /\ pc' = "concurrency"
    /\ UNCHANGED <<host, build_concurrency, rv, adapter, adapter_calls,
                   exc, ext_modules>>

\* line 141: a ValueError here is not caught by anything
ParseConcurrency ==
    /\ pc = "concurrency"
    /\ LET n == PyInt(EnvGet(environ, "CASS_DRIVER_BUILD_CONCURRENCY", <<"0">>))
       IN  IF n.ok
           THEN /\ build_concurrency' = n.value
                /\ pc' = "murmur3"
                /\ exc' = exc
           ELSE /\ build_concurrency' = build_concurrency
                /\ pc' = "fatal"
                /\ exc' = "ValueError"
    /\ UNCHANGED <<host, stderr, rv, adapter, adapter_calls, ext_modules>>

\* variant: the hash descriptor is appended without looking at try_murmur3
AppendMurmur3_Always ==
    /\ pc = "murmur3"
    /\ stderr' = Append(stderr, "Appending murmur extension")
    /\ rv' = Append(rv, murmur3_ext)
    /\ pc' = "libev"
    /\ UNCHANGED <<host, build_concurrency, adapter, adapter_calls,
                   exc, ext_modules>>

\* lines 145-149
AppendMurmur3 ==
    /\ pc = "murmur3"
    /\ IF try_murmur3
       THEN /\ stderr' = Append(stderr, "Appending murmur extension")
            /\ rv' = Append(rv, murmur3_ext)
       ELSE UNCHANGED <<stderr, rv>>
    /\ pc' = "libev"
    /\ UNCHANGED <<host, build_concurrency, adapter, adapter_calls,
                   exc, ext_modules>>

\* lines 151-153
AppendLibev ==
    /\ pc = "libev"
    /\ IF try_libev
       THEN /\ stderr' = Append(stderr, "Appending libev extension")
            /\ rv' = Append(rv, libev_ext)
       ELSE UNCHANGED <<stderr, rv>>
    /\ pc' = "cython"
    /\ UNCHANGED <<host, build_concurrency, adapter, adapter_calls,
                   exc, ext_modules>>

\* lines 155-156
EnterCython ==
    /\ pc = "cython"
    /\ IF try_cython
       THEN /\ stderr' = Append(stderr, "Trying Cython builds")
            /\ pc' = "import"
       ELSE /\ stderr' = stderr
            /\ pc' = "return"
    /\ UNCHANGED <<host, build_concurrency, rv, adapter, adapter_calls,
                   exc, ext_modules>>

\* line 158
ImportCythonize ==
    /\ pc = "import"
    /\ \/ /\ adapter' = [adapter EXCEPT !.import = "ok"]
          /\ pc' = "named"
          /\ exc' = exc
       \/ \E e \in ImportErrors :
            /\ adapter' = [adapter EXCEPT !.import = e]
            /\ pc' = "except"
            /\ exc' = e
    /\ UNCHANGED <<host, stderr, build_concurrency, rv, adapter_calls,
                   ext_modules>>

\* lines 159-167
CallCythonizeNamed ==
    /\ pc = "named"
    /\ adapter_calls' = adapter_calls + 1
    /\ \/ \E failed \in FailedSets :
            /\ adapter' = [adapter EXCEPT !.named = "returned",
                                          !.failed = failed]
            /\ rv' = rv \o CythonizeNamed(failed, sys_platform)
            /\ pc' = "glob"
            /\ exc' = exc
       \/ \E e \in AdapterErrors :
            /\ adapter' = [adapter EXCEPT !.named = "raised"]
            /\ rv' = rv
            /\ pc' = "except"
            /\ exc' = e
    /\ UNCHANGED <<host, stderr, build_concurrency, ext_modules>>

\* lines 169-170
CallCythonizeGlob ==
    /\ pc = "glob"
    /\ adapter_calls' = adapter_calls + 1
    /\ \/ \E found \in FoundSets :
            /\ adapter' = [adapter EXCEPT !.glob = "returned",
                                          !.found = found]
            /\ rv' = rv \o CythonizeGlob(found, sys_platform)
            /\ pc' = "return"
            /\ exc' = exc
       \/ \E e \in AdapterErrors :
            /\ adapter' = [adapter EXCEPT !.glob = "raised"]
            /\ rv' = rv
            /\ pc' = "except"
            /\ exc' = e
    /\ UNCHANGED <<host, stderr, build_concurrency, ext_modules>>

\* lines 171-172: the handler, or the exception leaves build_extension_list
HandleException ==
    /\ pc = "except"
    /\ IF Catches(exc)
       THEN /\ stderr' = Append(stderr, "Failed to cythonize one or more modules")
            /\ exc' = "none"
            /\ pc' = "return"
       ELSE /\ stderr' = stderr
            /\ exc' = exc
            /\ pc' = "crashed"
    /\ UNCHANGED <<host, build_concurrency, rv, adapter, adapter_calls,
                   ext_modules>>

\* lines 174 and 179: build_extension_list returns rv, which becomes the
\* ext_modules argument of setup()
ReturnPlan ==
    /\ pc = "return"
    /\ ext_modules' = rv
    /\ pc' = "setup"
    /\ UNCHANGED <<host, stderr, build_concurrency, rv, adapter,
                   adapter_calls, exc>>

\* lines 177-180: setup() parses the command line, then runs the commands.
\* It ends the script with SystemExit when it refuses the command line
\* ("rejected") or when a command fails ("failed"): build_ext has nothing
\* to do for an empty plan, and compiles the descriptors otherwise, which
\* may fail.
CallSetup ==
    /\ pc = "setup"
    /\ LET parsed == ParseCommandLine(Tail(sys_argv))
       IN  \/ /\ parsed.outcome = "error"
              /\ stderr' = Append(stderr, parsed.message)
              /\ exc' = "SystemExit"
              /\ pc' = "rejected"
           \/ /\ parsed.outcome \in {"display", "run"}
              /\ stderr' = stderr
              /\ exc' = exc
              /\ pc' = "done"
           \/ /\ parsed.outcome = "run"
              /\ ext_modules # <<>>
              /\ stderr' = Append(stderr, "error: command failed")
              /\ exc' = "SystemExit"
              /\ pc' = "failed"
    /\ UNCHANGED <<host, build_concurrency, rv, adapter, adapter_calls,
                   ext_modules>>

Next ==
    \/ UpfrontChecks
    \/ ParseConcurrency
    \/ AppendMurmur3
    \/ AppendLibev
    \/ EnterCython
    \/ ImportCythonize
    \/ CallCythonizeNamed
    \/ CallCythonizeGlob
    \/ HandleException
    \/ ReturnPlan
    \/ CallSetup

(***************************************************************************)
(* build_extension_list as a function of the switches and of what the      *)
(* adapter did (a record shaped like the variable `adapter')                *)
(***************************************************************************)
PlanAfterAdapter(plan, a, platform) ==
    IF a.import # "ok" \/ a.named # "returned" THEN plan
    ELSE LET first == plan \o CythonizeNamed(a.failed, platform)
         IN  IF a.glob # "returned" THEN first
             ELSE first \o CythonizeGlob(a.found, platform)

build_extension_list(argv, env, platform, byteorder, version, a) ==
    LET hash == IF TryMurmur3(argv, env, platform, byteorder, version)
                THEN <<murmur3_ext>> ELSE <<>>
        loop == IF TryLibev(argv, env, platform, byteorder, version)
                THEN <<LibevExt(LibevIncludes(env, platform),
                                LibevLibdirs(env, platform))>>
                ELSE <<>>
    IN  IF TryCython(argv, env, platform, byteorder, version)
        THEN PlanAfterAdapter(hash \o loop, a, platform)
        ELSE hash \o loop

(***************************************************************************)
(* Initial states: the host, the command line and the environment          *)
(***************************************************************************)
Platforms == { <<"linux">>, <<"darwin">>, <<"win32">>, <<"cli">>,
               <<"java", "1.8.0">> }
ByteOrders == {"little", "big"}
Versions == { <<"3.11.4 (main) ", "[GCC 12.2.0]">>,
              <<"3.9.18 (main) ", "[", "PyPy", " 7.3.13]">> }
\* command lines: sys.argv[0] is the script
Argv(words) == <<"setup.py">> \o words
FlagOrder == <<"--no-extensions", "--no-murmur3", "--no-libev", "--no-cython">>
FlagWords(chosen) ==
    LET Chosen(w) == w \in chosen IN SelectSeq(FlagOrder, Chosen)
\* build_ext followed by any of the flags
BuildLines == {Argv(<<"build_ext">> \o FlagWords(f)) : f \in SUBSET Flags}
\* --version, alone or ahead of everything else
VersionLines ==
    {Argv(<<"--version">>), Argv(<<"--version", "build_ext">>),
     Argv(<<"--version", "build_ext", "--no-cython">>),
     Argv(<<"--version", "build_ext", "--no-extensions">>),
     Argv(<<"--version", "build_ext", "--no-murmur3", "--no-libev">>)}
\* other shapes: a flag ahead of the command or of --version, a flag taken
\* as the argument of --build-lib, and command lines setup() refuses
\* whatever the flags
OtherLines ==
    {Argv(<<>>), Argv(<<"out">>),
     Argv(<<"--no-cython", "--version">>), Argv(<<"--version", "--no-cython">>),
     Argv(<<"--no-extensions", "build_ext">>),
     Argv(<<"--no-murmur3">>),
     Argv(<<"build_ext", "--version">>),
     Argv(<<"build_ext", "--build-lib">>),
     Argv(<<"build_ext", "--build-lib", "out">>),
     Argv(<<"build_ext", "--build-lib", "--no-cython">>),
     Argv(<<"build_ext", "--build-lib", "--no-cython", "--no-libev">>),
     Argv(<<"build_ext", "--build-lib", "out", "build_ext", "--no-murmur3">>)}

Unset == {}
Value(s) == {s}

SwitchValues == {Unset, Value(<<>>), Value(<<"1">>)}
PathValues ==
    {Unset, Value(<<>>), Value(<<"/a">>), Value(<<"/a", ",", "/b">>),
     Value(<<"/b", ",", "/a">>), Value(<<"/a", ",", " ", "/b">>),
     Value(<<" ">>), Value(<<"/a", ",", ",", "/b", " ">>),
     Value(<<"/a", "\n", ",", "U+00A0", "/b">>)}
ConcurrencyValues ==
    {Unset, Value(<<>>), Value(<<"0">>), Value(<<"4">>), Value(<<"1", "6">>),
     Value(<<"-", "1">>), Value(<<" ", "4", " ">>), Value(<<"4", ".", "0">>),
     Value(<<"a", "u", "t", "o">>), Value(<<"4", "x">>), Value(<<"-">>),
     Value(<<"1", "_", "6">>), Value(<<"1", "_", "_", "6">>),
     Value(<<"4", "\n">>), Value(<<"U+001C", "4">>), Value(<<"U+0664">>)}
Bind(name, opt) ==
    [n \in (IF opt = {} THEN {} ELSE {name}) |-> CHOOSE v \in opt : TRUE]

InitRun ==
    /\ pc = "upfront"
    /\ stderr = <<>>
    /\ build_concurrency = 0
    /\ rv = <<>>
    /\ adapter = NoAdapter
    /\ adapter_calls = 0
    /\ exc = "none"
    /\ ext_modules = <<>>

InitHost(platforms, orders, versions, argvs) ==
    /\ sys_platform \in platforms
    /\ sys_byteorder \in orders
    /\ sys_version \in versions
    /\ sys_argv \in argvs

InitEnv(exts, loops, cythons, hashes, incs, libs, concs) ==
    \E x \in exts, l \in loops, c \in cythons, m \in hashes,
       i \in incs, d \in libs, n \in concs :
        environ = Bind("CASS_DRIVER_NO_EXTENSIONS", x)
                  @@ Bind("CASS_DRIVER_NO_LIBEV", l)
                  @@ Bind("CASS_DRIVER_NO_CYTHON", c)
                  @@ Bind("CASS_DRIVER_NO_MURMUR3", m)
                  @@ Bind("CASS_DRIVER_LIBEV_INCLUDES", i)
                  @@ Bind("CASS_DRIVER_LIBEV_LIBS", d)
                  @@ Bind("CASS_DRIVER_BUILD_CONCURRENCY", n)

\* every host, every flag combination, every switch variable; a macOS or
\* Windows host in the runs where --no-cython keeps the adapter out; the
\* other shapes of command line on one host; the values of the parallelism
\* hint in runs where CASS_DRIVER_NO_CYTHON keeps the adapter out
Init ==
    /\ \/ /\ \/ InitHost({ <<"linux">>, <<"cli">>, <<"java", "1.8.0">> },
                         ByteOrders, Versions, BuildLines)
             \/ InitHost({ <<"darwin">>, <<"win32">> }, ByteOrders, Versions,
                         {a \in BuildLines : InArgv(a, "--no-cython")})
          /\ InitEnv(SwitchValues, {Unset, Value(<<>>), Value(<<"0">>)},
                     SwitchValues, {Unset, Value(<<"1">>)},
                     {Unset}, {Unset}, {Unset})
       \/ /\ InitHost({ <<"linux">> }, {"little"}, Versions,
                       VersionLines \cup OtherLines)
          /\ InitEnv({Unset, Value(<<"1">>)}, {Unset},
                     {Unset, Value(<<"1">>)}, {Unset},
                     {Unset}, {Unset}, {Unset})
       \/ /\ InitHost({ <<"linux">>, <<"cli">> }, ByteOrders, Versions,
                       {Argv(<<"build_ext">>), Argv(<<"--version">>),
                        Argv(<<"build_ext", "--no-cython">>),
                        Argv(<<"build_ext", "--no-extensions">>),
                        Argv(<<"--version", "build_ext", "--no-murmur3">>)})
          /\ InitEnv({Unset}, {Unset}, {Value(<<"1">>)}, {Unset},
                     {Unset}, {Unset}, ConcurrencyValues)
    /\ InitRun

Spec == Init /\ [][Next]_vars

\* search-path overrides on supported hosts
InitPaths ==
    /\ InitHost({ <<"linux">>, <<"darwin">>, <<"win32">> }, {"little"},
                Versions,
                {Argv(<<"build_ext">>), Argv(<<"build_ext", "--no-cython">>),
                 Argv(<<"--version", "build_ext", "--no-libev",
                        "--no-cython">>)})
    /\ InitEnv({Unset}, {Unset}, {Unset}, {Unset}, PathValues,
               {Unset, Value(<<"/l", "\n", " ", ",", "/m">>)}, {Unset})
    /\ InitRun

SpecPaths == InitPaths /\ [][Next]_vars

TypeOK ==
    /\ pc \in {"upfront", "concurrency", "fatal", "murmur3", "libev", "cython",
               "import", "named", "glob", "except", "return", "crashed",
               "setup", "done", "rejected", "failed"}
    /\ adapter_calls \in 0..2
    /\ exc \in ImportErrors \cup {"none"}
    /\ pc \in {"setup", "done", "rejected", "failed"} =>
         ext_modules = build_extension_list(sys_argv, environ, sys_platform,
                                            sys_byteorder, sys_version, adapter)

(***************************************************************************)
(* Vocabulary of the properties                                            *)
(***************************************************************************)
HashName == <<"cassandra", "cmurmur3">>
LoopName == <<"cassandra", "io", "libevwrapper">>

IsHash(d) == d.name = HashName
IsLoop(d) == d.name = LoopName
IsAdapterProduced(d) == ~IsHash(d) /\ ~IsLoop(d)

HashPart(plan) == SelectSeq(plan, IsHash)
LoopPart(plan) == SelectSeq(plan, IsLoop)
AdapterPart(plan) == SelectSeq(plan, IsAdapterProduced)

NotHash(d) == ~IsHash(d)
NotLoop(d) == ~IsLoop(d)

ModuleOf(d) == d.name[2]
ModuleNames(plan) == [i \in 1..Len(plan) |-> ModuleOf(plan[i])]

NoDuplicates(plan) ==
    \A i, j \in 1..Len(plan) : i # j => plan[i] # plan[j]

\* the variable is set to a non-empty string
Disables(name) == name \in DOMAIN environ /\ Len(environ[name]) > 0

supported_host == is_supported_platform /\ is_supported_arch

\* build_extension_list has returned its plan
Returned == pc \in {"setup", "done", "rejected", "failed"}

(***************************************************************************)
(* C1: on a host whose platform is unsupported or whose byte order is big, *)
(* try_murmur3, try_libev and try_cython are all false and the plan is     *)
(* empty at every step and when returned, whatever argv and the            *)
(* environment hold; the adapter is never called.                          *)
(***************************************************************************)
C1_UnsupportedHostBuildsNothing ==
    (~is_supported_platform \/ ~is_supported_arch) =>
        /\ ~try_murmur3 /\ ~try_libev /\ ~try_cython
        /\ rv = <<>>
        /\ ext_modules = <<>>
        /\ adapter_calls = 0

C1_Witness ==
    /\ pc = "done"
    /\ is_supported_platform /\ ~is_supported_arch /\ ~is_pypy
    /\ sys_argv = Argv(<<"build_ext">>)
    /\ \A n \in DOMAIN environ : environ[n] = <<>>

(***************************************************************************)
(* C2: on a PyPy host try_libev and try_cython are false, and try_murmur3  *)
(* has the value it has on every non-PyPy host with the same platform,     *)
(* byte order, argv and environment; the returned plan holds at most the   *)
(* hash descriptor.                                                        *)
(***************************************************************************)
C2_PypyKeepsOnlyHash ==
    is_pypy =>
        /\ ~try_libev /\ ~try_cython
        /\ \A v \in Versions :
             ~IsPypy(v) =>
                try_murmur3 = TryMurmur3(sys_argv, environ, sys_platform,
                                         sys_byteorder, v)
        /\ LoopPart(rv) = <<>> /\ AdapterPart(rv) = <<>>
        /\ (Returned /\ supported_host /\ ~InArgv(sys_argv, "--no-extensions")
              /\ ~InArgv(sys_argv, "--no-murmur3")
              /\ ~Disables("CASS_DRIVER_NO_EXTENSIONS"))
           => ext_modules = <<murmur3_ext>>

C2_Witness ==
    /\ pc = "done"
    /\ is_pypy /\ supported_host
    /\ sys_argv = Argv(<<"build_ext">>)
    /\ ext_modules = <<murmur3_ext>>

(***************************************************************************)
(* C3: with --no-extensions in argv the plan is empty at every step and    *)
(* when returned, the import of cythonize is never attempted and the       *)
(* adapter is never called, on every host and for every other flag and     *)
(* environment setting.                                                    *)
(***************************************************************************)
C3_NoExtensionsFlagEmptiesPlan ==
    InArgv(sys_argv, "--no-extensions") =>
        /\ rv = <<>>
        /\ ext_modules = <<>>
        /\ adapter = NoAdapter
        /\ adapter_calls = 0
        /\ pc \notin {"import", "named", "glob", "except", "crashed"}

C3_Witness ==
    /\ pc = "setup"
    /\ sys_argv = Argv(<<"build_ext", "--no-extensions">>)
    /\ supported_host /\ ~is_pypy
    /\ DOMAIN environ = {}
    /\ ext_modules = <<>>

(***************************************************************************)
(* C4: when the returned plan is full (hash, event-loop and adapter        *)
(* descriptors all present), the same run with only --no-murmur3 added to  *)
(* argv returns the plan without exactly the hash descriptor, and with     *)
(* only --no-libev added the plan without exactly the event-loop           *)
(* descriptor; the other descriptors keep their relative order.            *)
(***************************************************************************)
FullPlan ==
    /\ Returned
    /\ HashPart(ext_modules) # <<>>
    /\ LoopPart(ext_modules) # <<>>
    /\ AdapterPart(ext_modules) # <<>>

C4_SingleFlagRemovesOneDescriptor ==
    FullPlan =>
        /\ build_extension_list(Append(sys_argv, "--no-murmur3"), environ,
                                sys_platform, sys_byteorder, sys_version,
                                adapter)
           = SelectSeq(ext_modules, NotHash)
        /\ build_extension_list(Append(sys_argv, "--no-libev"), environ,
                                sys_platform, sys_byteorder, sys_version,
                                adapter)
           = SelectSeq(ext_modules, NotLoop)
        /\ Len(SelectSeq(ext_modules, NotHash)) = Len(ext_modules) - 1
        /\ Len(SelectSeq(ext_modules, NotLoop)) = Len(ext_modules) - 1

C4_Witness ==
    /\ FullPlan
    /\ adapter.glob = "returned"
    /\ adapter.found # {}

(***************************************************************************)
(* C5: when the adapter step is eligible and importing cythonize fails,    *)
(* the failure is contained (the run goes on to return a plan, it never    *)
(* leaves build_extension_list with the exception) and the plan, from the  *)
(* failed import to the return, is exactly the eligible hash descriptor    *)
(* followed by the eligible event-loop descriptor.                         *)
(***************************************************************************)
EligibleStatic ==
    (IF try_murmur3 THEN <<murmur3_ext>> ELSE <<>>)
    \o (IF try_libev THEN <<libev_ext>> ELSE <<>>)

C5_MissingToolchainKeepsStaticDescriptors ==
    (try_cython /\ adapter.import = "ImportError") =>
        /\ pc = "except" \/ pc = "return" \/ Returned
        /\ rv = EligibleStatic
        /\ adapter_calls = 0
        /\ Returned => ext_modules = EligibleStatic

C5_Witness ==
    /\ pc = "done"
    /\ try_cython /\ try_murmur3 /\ try_libev
    /\ adapter.import = "ImportError"
    /\ Len(ext_modules) = 2

(***************************************************************************)
(* C6 as stated: if the import or either adapter call raises, the returned *)
(* plan holds no adapter-produced descriptor at all.  (A plan is returned  *)
(* when the handler catches what was raised.)                              *)
(***************************************************************************)
ImportFailed == adapter.import \notin {"untried", "ok"}

AdapterFailed ==
    \/ ImportFailed
    \/ adapter.named = "raised"
    \/ adapter.glob = "raised"

C6_AllOrNothing ==
    (Returned /\ AdapterFailed) => AdapterPart(ext_modules) = <<>>

(***************************************************************************)
(* C6 amended: if the import or the first (named-module) call raises, the  *)
(* returned plan holds no adapter-produced descriptor; if the first call   *)
(* returns and only the second ('*.pyx') call raises, the plan keeps the   *)
(* first call's descriptors (the named modules that did not fail, in       *)
(* order) and holds none of the second group.                              *)
(***************************************************************************)
NotFailed(m) == m \notin adapter.failed

C6_FirstGroupSurvivesSecondFailure ==
    Returned =>
        /\ (ImportFailed \/ adapter.named = "raised")
             => AdapterPart(ext_modules) = <<>>
        /\ adapter.glob = "raised"
             => /\ ModuleNames(AdapterPart(ext_modules))
                     = SelectSeq(cython_candidates, NotFailed)
                /\ \A i \in 1..Len(ext_modules) :
                     ModuleOf(ext_modules[i]) \notin Range(pyx_files)

C6_Witness ==
    /\ pc = "done"
    /\ adapter.named = "returned"
    /\ adapter.failed # {}
    /\ adapter.glob = "raised"
    /\ Len(AdapterPart(ext_modules)) = Len(cython_candidates) - 1

(***************************************************************************)
(* C7 as stated: on a supported, non-PyPy host each of the four switches   *)
(* is off if its --no-<feature> flag is in argv, else off if its           *)
(* CASS_DRIVER_NO_<FEATURE> variable is non-empty, else on (the three      *)
(* feature switches given that the all-extensions switch is on).           *)
(***************************************************************************)
SwitchOn(flag, variable) == ~InArgv(sys_argv, flag) /\ ~Disables(variable)

C7_FourSwitchesFlagThenEnv ==
    (supported_host /\ ~is_pypy) =>
        /\ try_extensions
             = SwitchOn("--no-extensions", "CASS_DRIVER_NO_EXTENSIONS")
        /\ try_extensions =>
             /\ try_murmur3 = SwitchOn("--no-murmur3", "CASS_DRIVER_NO_MURMUR3")
             /\ try_libev = SwitchOn("--no-libev", "CASS_DRIVER_NO_LIBEV")
             /\ try_cython = SwitchOn("--no-cython", "CASS_DRIVER_NO_CYTHON")

(***************************************************************************)
(* C7 amended: the flag-then-variable order holds for the all-extensions,  *)
(* libev and cython switches; the murmur3 switch has no environment        *)
(* variable: it is off exactly when --no-murmur3 is in argv (or the        *)
(* all-extensions switch is off), and CASS_DRIVER_NO_MURMUR3 is not read.  *)
(***************************************************************************)
C7_MurmurHasNoEnvSwitch ==
    (supported_host /\ ~is_pypy) =>
        /\ try_extensions
             = SwitchOn("--no-extensions", "CASS_DRIVER_NO_EXTENSIONS")
        /\ try_extensions =>
             /\ try_murmur3 = ~InArgv(sys_argv, "--no-murmur3")
             /\ try_libev = SwitchOn("--no-libev", "CASS_DRIVER_NO_LIBEV")
             /\ try_cython = SwitchOn("--no-cython", "CASS_DRIVER_NO_CYTHON")

C7_Witness ==
    /\ pc = "done"
    /\ supported_host /\ ~is_pypy
    /\ Disables("CASS_DRIVER_NO_MURMUR3")
    /\ "CASS_DRIVER_NO_LIBEV" \in DOMAIN environ
    /\ ~Disables("CASS_DRIVER_NO_LIBEV")
    /\ Disables("CASS_DRIVER_NO_CYTHON")
    /\ ext_modules = <<murmur3_ext, libev_ext>>

(***************************************************************************)
(* Comma-separated entries of a string, stated by positions                *)
(***************************************************************************)
Cuts(s) == {0, Len(s) + 1} \cup {i \in 1..Len(s) : s[i] = ","}
NthCut(s, k) ==
    CHOOSE c \in Cuts(s) : Cardinality({d \in Cuts(s) : d < c}) = k - 1
RawEntries(s) ==
    [k \in 1..(Cardinality(Cuts(s)) - 1) |->
        SubSeq(s, NthCut(s, k) + 1, NthCut(s, k + 1) - 1)]

Inked(e) == {i \in 1..Len(e) : e[i] \notin Whitespace}
Trimmed(e) ==
    IF Inked(e) = {} THEN <<>>
    ELSE SubSeq(e, CHOOSE i \in Inked(e) : \A j \in Inked(e) : i <= j,
                   CHOOSE i \in Inked(e) : \A j \in Inked(e) : i >= j)
TrimmedEntries(s) == [k \in 1..Len(RawEntries(s)) |-> Trimmed(RawEntries(s)[k])]

MacosSuffix ==
    IF is_macos
    THEN << <<"/opt/homebrew/include">>, <<"/Users/dev", "/homebrew/include">> >>
    ELSE <<>>

BuiltinIncludes ==
    << <<"/usr/include/libev">>, <<"/usr/local/include">>,
       <<"/opt/local/include">>, <<"/usr/include">> >>

IncludesOverridden == Disables("CASS_DRIVER_LIBEV_INCLUDES")

LoopIncludeDirsAre(expected) ==
    /\ \A i \in 1..Len(rv) : IsLoop(rv[i]) => rv[i].include_dirs = expected
    /\ \A i \in 1..Len(ext_modules) :
         IsLoop(ext_modules[i]) => ext_modules[i].include_dirs = expected

(***************************************************************************)
(* C8 as stated: the event-loop descriptor's include paths are the         *)
(* comma-separated entries of CASS_DRIVER_LIBEV_INCLUDES as given (or the  *)
(* built-in list when it is unset or empty), followed by the macOS         *)
(* prefixes on macOS and by nothing elsewhere.                             *)
(***************************************************************************)
C8_IncludesAreEntriesAsGiven ==
    LoopIncludeDirsAre(
        (IF IncludesOverridden
         THEN RawEntries(environ["CASS_DRIVER_LIBEV_INCLUDES"])
         ELSE BuiltinIncludes) \o MacosSuffix)

(***************************************************************************)
(* C8 amended: the same, except that each comma-separated entry is taken   *)
(* with its leading and trailing whitespace removed; entries keep their    *)
(* order and none is dropped (an entry that is empty or blank stays, as    *)
(* the empty path).                                                        *)
(***************************************************************************)
C8_IncludesAreTrimmedEntries ==
    LoopIncludeDirsAre(
        (IF IncludesOverridden
         THEN TrimmedEntries(environ["CASS_DRIVER_LIBEV_INCLUDES"])
         ELSE BuiltinIncludes) \o MacosSuffix)

C8_Witness ==
    /\ pc = "done"
    /\ is_macos
    /\ IncludesOverridden
    /\ environ["CASS_DRIVER_LIBEV_INCLUDES"] = <<"/a", ",", " ", "/b">>
    /\ LoopPart(ext_modules) # <<>>
    /\ LoopPart(ext_modules)[1].include_dirs
         = << <<"/a">>, <<"/b">>, <<"/opt/homebrew/include">>,
              <<"/Users/dev", "/homebrew/include">> >>

(***************************************************************************)
(* Integer literals as int() reads them, stated by positions: blanks,      *)
(* an optional sign, then digits with single underscores between digits.   *)
(***************************************************************************)
FirstInk(s) ==
    CHOOSE k \in 1..(Len(s) + 1) :
        /\ k = Len(s) + 1 \/ s[k] \notin IntWhitespace
        /\ \A i \in 1..(k - 1) : s[i] \in IntWhitespace
LastInk(s) ==
    CHOOSE k \in 0..Len(s) :
        /\ k = 0 \/ s[k] \notin IntWhitespace
        /\ \A i \in (k + 1)..Len(s) : s[i] \in IntWhitespace

DenotesInteger(s) ==
    LET lo == FirstInk(s)
        hi == LastInk(s)
        d == IF lo <= hi /\ s[lo] \in {"+", "-"} THEN lo + 1 ELSE lo
    IN  /\ d <= hi
        /\ s[d] \in Digits
        /\ s[hi] \in Digits
        /\ \A i \in d..hi :
             \/ s[i] \in Digits
             \/ s[i] = "_" /\ s[i - 1] \in Digits /\ s[i + 1] \in Digits

ConcurrencySet == "CASS_DRIVER_BUILD_CONCURRENCY" \in DOMAIN environ
ConcurrencyText == environ["CASS_DRIVER_BUILD_CONCURRENCY"]

MalformedConcurrency == ConcurrencySet /\ ~DenotesInteger(ConcurrencyText)

\* the command line without the four flags, and whether setup() accepts it
NotFlag(w) == w \notin Flags
WithoutFlags(argv) == SelectSeq(argv, NotFlag)
UsableCommandLine ==
    ParseCommandLine(Tail(WithoutFlags(sys_argv))).outcome # "error"

(***************************************************************************)
(* C9: the run ends in a fatal startup error exactly when                  *)
(* CASS_DRIVER_BUILD_CONCURRENCY is set to a value that is not an integer  *)
(* literal, and then before anything is assembled.  In every other case,   *)
(* whatever the host, the flags in argv, the environment and the adapter   *)
(* do, no exception leaves build_extension_list, the plan is returned, and *)
(* a command line that is in order apart from the four flags is not        *)
(* refused.                                                                *)
(***************************************************************************)
C9_OnlyMalformedConcurrencyIsFatal ==
    /\ pc # "crashed"
    /\ pc = "rejected" => ~UsableCommandLine
    /\ pc = "fatal" =>
         /\ MalformedConcurrency
         /\ rv = <<>> /\ ext_modules = <<>> /\ adapter_calls = 0
    /\ MalformedConcurrency => pc \in {"upfront", "concurrency", "fatal"}
    /\ pc \notin {"fatal", "done", "rejected", "failed"} => ENABLED Next

\* a run with a well-formed hint and a flag in argv, refused by setup()
\* after the plan was returned
C9_Witness ==
    /\ pc = "rejected"
    /\ sys_argv = Argv(<<"build_ext", "--no-cython">>)
    /\ ConcurrencySet /\ ConcurrencyText = <<"4">>
    /\ UsableCommandLine
    /\ exc = "SystemExit"
    /\ ext_modules = EligibleStatic

(***************************************************************************)
(* C10: at every point of build_extension_list and in the returned value,  *)
(* the plan holds the hash descriptor only if try_murmur3, the event-loop  *)
(* descriptor only if try_libev and adapter-produced descriptors only if   *)
(* try_cython; the plan is the hash descriptor (if any), then the          *)
(* event-loop descriptor (if any), then the adapter-produced ones, no      *)
(* descriptor twice; the returned plan holds each eligible static one.     *)
(***************************************************************************)
WellFormedPlan(plan) ==
    /\ HashPart(plan) # <<>> => try_murmur3
    /\ LoopPart(plan) # <<>> => try_libev
    /\ AdapterPart(plan) # <<>> => try_cython
    /\ Len(HashPart(plan)) <= 1
    /\ Len(LoopPart(plan)) <= 1
    /\ plan = HashPart(plan) \o LoopPart(plan) \o AdapterPart(plan)
    /\ NoDuplicates(plan)

C10_PlanHoldsOnlyEligibleInOrder ==
    /\ WellFormedPlan(rv)
    /\ WellFormedPlan(ext_modules)
    /\ Returned =>
         /\ try_murmur3 => HashPart(ext_modules) = <<murmur3_ext>>
         /\ try_libev => LoopPart(ext_modules) = <<libev_ext>>

C10_Witness ==
    /\ pc = "setup"
    /\ ~try_murmur3 /\ try_libev /\ try_cython
    /\ adapter.glob = "returned"
    /\ Len(ext_modules) > Len(cython_candidates)

====
